---- MODULE Spec2Model ----
(***************************************************************************)
(* Steady-state porous media combustor (PMC) solver: the classes PMC and   *)
(* PMCNondim of PMC.py, the property presets of Properties.py and the call *)
(* made by driver_dim.py.                                                  *)
(*                                                                         *)
(* Numbers.  Python floats are modelled as exact rationals <<n, d>> in     *)
(* lowest terms with d > 0; rounding error (about 1e-16 relative) is not   *)
(* modelled.  <<0, 0>> stands for an attribute that was never assigned.    *)
(*                                                                         *)
(* nsolve.  sympy.nsolve hands the system to mpmath.findroot, which for a  *)
(* system runs the MDNewton iteration and, with the default verify=True,   *)
(* returns x only when norm(f(x))**2 <= tol (max-norm) and raises          *)
(* otherwise.  The iteration itself is not modelled: nsolve is an unknown  *)
(* deterministic function of its arguments that either raises or returns   *)
(* a vector passing that acceptance test, drawn from a finite lattice.     *)
(***************************************************************************)
EXTENDS Integers, Sequences, FiniteSets, TLC

VARIABLES obj, log

vars == <<obj, log>>

----------------------------------------------------------------------------
(* Bounds of the model *)

\* number of run calls followed
MaxCalls == 3
\* the candidate lattice holds the multiples of 1/2 in -GridK/2 .. GridK/2
GridK == 14

----------------------------------------------------------------------------
(* Exact rational arithmetic *)

Abs(n) == IF n < 0 THEN -n ELSE n

RECURSIVE GCD(_, _)
GCD(a, b) == IF b = 0 THEN a ELSE GCD(b, a % b)

Norm(n, d) ==
    LET g == GCD(Abs(n), Abs(d))
        s == IF d < 0 THEN -1 ELSE 1
    IN  <<s * (n \div g), s * (d \div g)>>

Q(n, d) == Norm(n, d)
R(n) == <<n, 1>>
Zero == R(0)
One == R(1)

RNeg(a) == <<-a[1], a[2]>>
RAbs(a) == <<Abs(a[1]), a[2]>>

RAdd(a, b) ==
    LET g == GCD(a[2], b[2])
    IN  Norm(a[1] * (b[2] \div g) + b[1] * (a[2] \div g), (a[2] \div g) * b[2])

RSub(a, b) == RAdd(a, RNeg(b))

RMul(a, b) ==
    IF a[1] = 0 \/ b[1] = 0 THEN Zero
    ELSE LET g1 == GCD(Abs(a[1]), b[2])
             g2 == GCD(Abs(b[1]), a[2])
         IN  <<(a[1] \div g1) * (b[1] \div g2), (a[2] \div g2) * (b[2] \div g1)>>

\* b # 0
RDiv(a, b) == RMul(a, IF b[1] < 0 THEN <<-b[2], -b[1]>> ELSE <<b[2], b[1]>>)

RLt(a, b) == a[1] * b[2] < b[1] * a[2]
RLe(a, b) == a[1] * b[2] <= b[1] * a[2]

RPow3(a) == RMul(a, RMul(a, a))
RPow4(a) == RMul(RMul(a, a), RMul(a, a))

\* |a| <= 1/k for a positive integer k, without forming a product
AbsLeInv(a, k) == Abs(a[1]) <= a[2] \div k

----------------------------------------------------------------------------
(* Properties.py: the property presets *)

Unset == <<0, 0>>

InterfaceStabilized ==
    [lambda_eff |-> Q(87, 10),
     L          |-> RMul(R(3), Q(254, 10000)),
     massFlux   |-> R(2),
     voidFrac   |-> Q(805, 1000),
     dp_upstr   |-> Q(492, 1000000),
     dp_dwnstr  |-> Q(3192, 1000000),
     emissivity |-> Q(9, 10),
     DeltaT_PH  |-> R(20),
     DeltaT_RC  |-> R(20)]

InterfaceStabilizedNondim ==
    [iota      |-> Q(5, 100),
     delta     |-> Q(138, 100),
     mu        |-> Zero,
     DeltaT_PH |-> R(20),
     DeltaT_RC |-> R(20)]

----------------------------------------------------------------------------
(* PMC.py: module namespace and constructors *)

\* the names PMC.py binds at module level (its imports and its classes)
ModuleGlobals == {"np", "Symbol", "nsolve", "PMC", "PMCNondim"}

NoResult == [T3x |-> Unset, T3y |-> Unset, T3b |-> Unset, TS1 |-> Unset, TS2 |-> Unset]

PMC_init(PMCData) ==
    [cls |-> "PMC", data |-> PMCData, res |-> NoResult]

PMCNondim_init(PMCData) ==
    [cls |-> "PMCNondim", data |-> PMCData, res |-> NoResult]

----------------------------------------------------------------------------
(* PMC.py: the equation system *)

\* the coefficients the five residuals are built from
NoSys == [iota |-> Unset, delta |-> Unset, mu |-> Unset, th_3a |-> Unset,
          th_4 |-> Unset, Delta1 |-> Unset, Delta2 |-> Unset, q |-> Unset]

NoVec == <<Unset, Unset, Unset, Unset, Unset>>

\* a faulty LHV_eff, for C6: the rich-branch division taken on the lean branch too
LHV_eff_AlwaysRich(f, f_st, LHV) ==
    RDiv(LHV, RDiv(f, f_st))

\* lines 45-48 and 91-94; f_st # 0 and f # 0 on the rich branch
LHV_eff(f, f_st, LHV) ==
    IF RLt(f, f_st) THEN LHV ELSE RDiv(LHV, RDiv(f, f_st))

\* the constant of f2: f/(f+1.)*(LHV/(cp*T0))
HeatRelease(cp, T0, f, LHV) ==
    RMul(RDiv(f, RAdd(f, One)), RDiv(LHV, RMul(cp, T0)))

\* the conduction-radiation exchange term shared by f1 and f3
Exchange(s, th_S1, th_S2) ==
    RMul(RAdd(One, RMul(s.delta, RPow3(RDiv(RAdd(th_S1, th_S2), R(2))))),
         RSub(th_S2, th_S1))

\* x = <<th_3x, th_3y, th_3b, th_S1, th_S2>>
f1(s, x) ==
    RSub(RMul(s.iota,
              RSub(Exchange(s, x[4], x[5]),
                   RMul(RMul(s.delta, s.mu), RSub(RPow4(x[4]), RPow4(s.th_3a))))),
         RSub(x[1], s.th_3a))

f2(s, x) == RSub(s.q, RSub(x[2], x[1]))

f3(s, x) ==
    RSub(RMul(s.iota,
              RAdd(Exchange(s, x[4], x[5]),
                   RMul(RMul(s.delta, s.mu), RSub(RPow4(x[5]), RPow4(s.th_4))))),
         RSub(x[2], x[3]))

f4(s, x) == RSub(s.Delta1, RSub(x[4], x[1]))

\* a faulty f5, for C7: the recirculation offset taken from th_S2 - th_3b
f5_Reversed(s, x) == RSub(s.Delta2, RSub(x[5], x[3]))

f5(s, x) == RSub(s.Delta2, RSub(x[3], x[5]))

\* the initial guess of lines 65-67 and 115-117; T3a # 0
Guess(T3a) ==
    LET g1 == RDiv(RAdd(T3a, R(1000)), T3a)
        g2 == RDiv(RAdd(T3a, R(1500)), T3a)
    IN  <<g1, g2, g1, g1, g1>>

----------------------------------------------------------------------------
(* nsolve(..., tol=1e-6) *)

\* tol=1e-6 of lines 67 and 117
tol == Q(1, 1000000)

\* norm(f(x))**2 <= tol is decided as |f_i(x)| <= 1/TolRoot, TolRoot**2 = 1/tol
TolRoot == CHOOSE k \in 1..2000 : k * k = tol[2]

Within(r) == AbsLeInv(r, TolRoot)

\* the candidate vectors: every unknown on the lattice of halves, th_3y
\* also displaced from it by a small offset
Lattice == {Q(k, 2) : k \in -GridK..GridK}
Offsets == {Zero, Q(1, 1000), Q(1, 500)}
GasLattice == {RAdd(v, e) : v \in Lattice, e \in Offsets}

\* the candidates x with every residual accepted, found equation by equation:
\* f4 reads th_3x, th_S1; f1 adds th_S2; f2 reads th_3x, th_3y; f5 reads
\* th_3b, th_S2; f3 reads all but th_3x
Accepted(s) ==
    UNION { UNION { { <<p[1], yb[1], yb[2], p[2], S2>> :
                        yb \in { c \in { y \in GasLattice :
                                           Within(f2(s, <<p[1], y, Zero, p[2], S2>>)) }
                                     \X { b \in Lattice :
                                           Within(f5(s, <<p[1], Zero, b, p[2], S2>>)) } :
                                 Within(f3(s, <<p[1], c[1], c[2], p[2], S2>>)) } }
                    : S2 \in { t \in Lattice : Within(f1(s, <<p[1], Zero, Zero, p[2], t>>)) } }
            : p \in { c \in Lattice \X Lattice :
                        Within(f4(s, <<c[1], Zero, Zero, c[2], Zero>>)) } }

----------------------------------------------------------------------------
(* PMC.run and PMCNondim.run up to the call of nsolve *)

Raise(kind, line) == [kind |-> kind, line |-> line, sys |-> NoSys, x0 |-> NoVec]

\* a faulty Build, for C8: the two offsets not divided by T0
Build_AbsoluteOffsets(iota, delta, mu, DeltaT_PH, DeltaT_RC, a, lnRich, lnF2, lnSolve) ==
    IF ~RLt(a.f, a.f_st) /\ (a.f_st[1] = 0 \/ a.f[1] = 0)
    THEN Raise("ZeroDivisionError", lnRich)
    ELSE IF RAdd(a.f, One)[1] = 0 \/ RMul(a.cp, a.T0)[1] = 0
    THEN Raise("ZeroDivisionError", lnF2)
    ELSE IF a.T3a[1] = 0
    THEN Raise("ZeroDivisionError", lnSolve + 1)
    ELSE [kind |-> "nsolve", line |-> lnSolve,
          sys  |-> [iota |-> iota, delta |-> delta, mu |-> mu,
                    th_3a |-> RDiv(a.T3a, a.T0), th_4 |-> RDiv(a.T4, a.T0),
                    Delta1 |-> DeltaT_PH, Delta2 |-> DeltaT_RC,
                    q |-> HeatRelease(a.cp, a.T0, a.f,
                                      IF RLt(a.f, a.f_st) THEN a.LHV
                                      ELSE RDiv(a.LHV, RDiv(a.f, a.f_st)))],
          x0   |-> Guess(a.T3a)]

\* lines 42-67 (PMC) and 88-117 (PMCNondim): T0 # 0
Build(iota, delta, mu, DeltaT_PH, DeltaT_RC, a, lnRich, lnF2, lnSolve) ==
    IF ~RLt(a.f, a.f_st) /\ (a.f_st[1] = 0 \/ a.f[1] = 0)
    THEN Raise("ZeroDivisionError", lnRich)
    ELSE IF RAdd(a.f, One)[1] = 0 \/ RMul(a.cp, a.T0)[1] = 0
    THEN Raise("ZeroDivisionError", lnF2)
    ELSE IF a.T3a[1] = 0
    THEN Raise("ZeroDivisionError", lnSolve + 1)
    ELSE [kind |-> "nsolve", line |-> lnSolve,
          sys  |-> [iota |-> iota, delta |-> delta, mu |-> mu,
                    th_3a |-> RDiv(a.T3a, a.T0), th_4 |-> RDiv(a.T4, a.T0),
                    Delta1 |-> RDiv(DeltaT_PH, a.T0), Delta2 |-> RDiv(DeltaT_RC, a.T0),
                    q |-> HeatRelease(a.cp, a.T0, a.f, LHV_eff(a.f, a.f_st, a.LHV))],
          x0   |-> Guess(a.T3a)]

\* the value read as ct.stefan_boltzmann, in the temperature unit that makes it 1
stefan_boltzmann == One

K_R_of(voidFrac, dp) == RDiv(RMul(R(3), RSub(One, voidFrac)), RMul(dp, R(1000)))

K_R_avg(d) ==
    RDiv(RAdd(K_R_of(d.voidFrac, d.dp_upstr), K_R_of(d.voidFrac, d.dp_dwnstr)), R(2))

iota_of(d, cp) == RDiv(d.lambda_eff, RMul(RMul(d.massFlux, cp), d.L))

delta_of(d, T0, K_R) ==
    RDiv(RMul(RMul(R(16), stefan_boltzmann), RPow3(T0)),
         RMul(RMul(R(3), K_R), d.lambda_eff))

mu_of(d, K_R) ==
    RDiv(RMul(RMul(RMul(R(3), d.emissivity), K_R), RMul(RSub(One, d.voidFrac), d.L)),
         R(16))

PMC_prepare(self, a) ==
    LET d == self.data IN
    IF a.T0[1] = 0 THEN Raise("ZeroDivisionError", 29)
    ELSE IF d.dp_upstr[1] = 0 THEN Raise("ZeroDivisionError", 32)
    ELSE IF d.dp_dwnstr[1] = 0 THEN Raise("ZeroDivisionError", 33)
    ELSE IF RMul(RMul(d.massFlux, a.cp), d.L)[1] = 0 THEN Raise("ZeroDivisionError", 36)
    ELSE IF "ct" \notin ModuleGlobals THEN Raise("NameError", 37)
    ELSE IF RMul(K_R_avg(d), d.lambda_eff)[1] = 0 THEN Raise("ZeroDivisionError", 37)
    ELSE Build(iota_of(d, a.cp), delta_of(d, a.T0, K_R_avg(d)), mu_of(d, K_R_avg(d)),
               d.DeltaT_PH, d.DeltaT_RC, a, 48, 58, 64)

\* a faulty PMCNondim_prepare, for C10: the temperatures a former run left on
\* the object are taken as the initial guess
PMCNondim_prepare_WarmStart(self, a) ==
    LET d == self.data
        r == self.res
        b == Build(d.iota, d.delta, d.mu, d.DeltaT_PH, d.DeltaT_RC, a, 94, 108, 114)
    IN  IF a.T0[1] = 0 THEN Raise("ZeroDivisionError", 85)
        ELSE IF b.kind = "nsolve" /\ r.T3x # Unset
        THEN [b EXCEPT !.x0 = <<RDiv(r.T3x, a.T0), RDiv(r.T3y, a.T0), RDiv(r.T3b, a.T0),
                                RDiv(r.TS1, a.T0), RDiv(r.TS2, a.T0)>>]
        ELSE b

PMCNondim_prepare(self, a) ==
    LET d == self.data IN
    IF a.T0[1] = 0 THEN Raise("ZeroDivisionError", 85)
    ELSE Build(d.iota, d.delta, d.mu, d.DeltaT_PH, d.DeltaT_RC, a, 94, 108, 114)

----------------------------------------------------------------------------
(* The objects and the calls followed *)

DimObjects ==
    [driver   |-> [InterfaceStabilized EXCEPT !.emissivity = Zero],
     zeroPore |-> [InterfaceStabilized EXCEPT !.dp_upstr = Zero],
     negPore  |-> [InterfaceStabilized EXCEPT !.dp_dwnstr = Q(-3192, 1000000)]]

NondimObjects ==
    [lin  |-> [InterfaceStabilizedNondim EXCEPT !.iota = One, !.delta = Zero,
                   !.DeltaT_PH = Q(1, 2), !.DeltaT_RC = Q(1, 2)],
     twin |-> [InterfaceStabilizedNondim EXCEPT !.iota = One, !.delta = Zero,
                   !.DeltaT_PH = Q(1, 2), !.DeltaT_RC = Q(1, 2)],
     lin2 |-> [InterfaceStabilizedNondim EXCEPT !.iota = One, !.delta = Zero,
                   !.DeltaT_PH = One, !.DeltaT_RC = One],
     rad  |-> [InterfaceStabilizedNondim EXCEPT !.iota = Q(1, 2), !.delta = Q(64, 729),
                   !.DeltaT_PH = Q(1, 2), !.DeltaT_RC = Q(1, 2)],
     emit |-> [InterfaceStabilizedNondim EXCEPT !.iota = Q(25, 64), !.delta = Q(8, 125),
                   !.mu = Q(3, 4), !.DeltaT_PH = Q(1, 2), !.DeltaT_RC = Q(1, 2)]]

DimIds == DOMAIN DimObjects
NondimIds == DOMAIN NondimObjects

\* f of every call, and the f_st it is below (lean), at, and above (rich)
Fuel == Q(1, 4)
Stoich == {Q(1, 2), Q(1, 4), Q(1, 8)}

\* the arguments of run, t = <<T0, T3a, T4>>
Arg(t, f_st, LHV) ==
    [cp |-> One, T0 |-> R(t[1]), T3a |-> R(t[2]), T4 |-> R(t[3]),
     f |-> Fuel, f_st |-> f_st, LHV |-> R(LHV)]

\* the calls made on each object
ArgsOf ==
    [driver   |-> {Arg(<<1, 1, 2>>, Q(1, 2), 10), Arg(<<0, 1, 2>>, Q(1, 2), 10)},
     zeroPore |-> {Arg(<<1, 1, 2>>, Q(1, 2), 10), Arg(<<0, 1, 2>>, Q(1, 2), 10)},
     negPore  |-> {Arg(<<1, 1, 2>>, Q(1, 2), 10), Arg(<<0, 1, 2>>, Q(1, 2), 10)},
     lin      |-> {Arg(t, u, 10) : t \in {<<1, 1, 2>>, <<1, 1, 4>>, <<-1, 1, 2>>,
                                        <<0, 1, 2>>, <<1, 0, 2>>}, u \in Stoich \ {Fuel}}
                  \cup {Arg(<<1, 1, 2>>, Fuel, 10), Arg(<<1, 1, 2>>, Zero, 10)},
     twin     |-> {Arg(<<1, 1, 2>>, Q(1, 2), 10), Arg(<<0, 1, 2>>, Q(1, 2), 10)},
     lin2     |-> {Arg(<<2, 2, 4>>, Q(1, 2), 10), Arg(<<2, 2, 4>>, Q(1, 2), 20)},
     rad      |-> {Arg(<<1, 1, 2>>, Q(1, 2), 10)},
     emit     |-> {Arg(<<1, 1, 2>>, Q(1, 2), 20)}]

Args == UNION {ArgsOf[o] : o \in DOMAIN ArgsOf}

\* Accepted, tabulated once for the systems the objects and Args can build
AcceptedOf ==
    [s \in { PMCNondim_prepare(PMCNondim_init(NondimObjects[o]), a).sys :
                o \in NondimIds, a \in Args } \ {NoSys} |-> Accepted(s)]

\* what nsolve may do with the system and guess of `pre`: NoVec is a raise.
\* nsolve is deterministic: a call it has answered before is answered alike.
nsolve(pre, calls) ==
    LET prior == { calls[i].out.SOL : i \in { j \in DOMAIN calls :
                       /\ calls[j].out.kind \in {"ok", "ValueError"}
                       /\ calls[j].out.sys = pre.sys
                       /\ calls[j].out.x0 = pre.x0 } }
    IN  IF prior # {} THEN prior
        ELSE {NoVec} \cup (IF pre.sys \in DOMAIN AcceptedOf THEN AcceptedOf[pre.sys]
                           ELSE Accepted(pre.sys))

\* a faulty Store, for C2: SOL is stored without the multiplication by T0
Store_Unscaled(self, SOL, T0) ==
    [self EXCEPT !.res = [T3x |-> SOL[1], T3y |-> SOL[2], T3b |-> SOL[3],
                          TS1 |-> SOL[4], TS2 |-> SOL[5]]]

\* a faulty Store, for C3: only the gas temperatures are assigned
Store_GasOnly(self, SOL, T0) ==
    [self EXCEPT !.res.T3x = RMul(SOL[1], T0), !.res.T3y = RMul(SOL[2], T0),
                 !.res.T3b = RMul(SOL[3], T0)]

\* lines 68-70 and 119-121: SOL *= T0, then the five attributes
Store(self, SOL, T0) ==
    [self EXCEPT !.res = [T3x |-> RMul(SOL[1], T0), T3y |-> RMul(SOL[2], T0),
                          T3b |-> RMul(SOL[3], T0), TS1 |-> RMul(SOL[4], T0),
                          TS2 |-> RMul(SOL[5], T0)]]

\* the outcomes of one call: <<the object afterwards, the record of the call>>
Outcomes(self, pre, a, calls) ==
    IF pre.kind # "nsolve"
    THEN { <<self, [kind |-> pre.kind, line |-> pre.line, sys |-> pre.sys,
                    x0 |-> pre.x0, SOL |-> NoVec]>> }
    ELSE { IF SOL = NoVec
           THEN <<self, [kind |-> "ValueError", line |-> pre.line, sys |-> pre.sys,
                         x0 |-> pre.x0, SOL |-> NoVec]>>
           ELSE <<Store(self, SOL, a.T0),
                  [kind |-> "ok", line |-> pre.line, sys |-> pre.sys,
                   x0 |-> pre.x0, SOL |-> SOL]>>
           : SOL \in nsolve(pre, calls) }

PMC_run(self, a, calls) == Outcomes(self, PMC_prepare(self, a), a, calls)

PMCNondim_run(self, a, calls) == Outcomes(self, PMCNondim_prepare(self, a), a, calls)

Init ==
    /\ obj = [o \in DimIds \cup NondimIds |->
                 IF o \in DimIds THEN PMC_init(DimObjects[o])
                 ELSE PMCNondim_init(NondimObjects[o])]
    /\ log = <<>>

Call(o, a, result) ==
    /\ obj' = [obj EXCEPT ![o] = result[1]]
    /\ log' = Append(log, [o |-> o, args |-> a, before |-> obj[o],
                           after |-> result[1], out |-> result[2]])

RunDim(o, a) ==
    /\ Len(log) < MaxCalls
    /\ \E result \in PMC_run(obj[o], a, log) : Call(o, a, result)

RunNondim(o, a) ==
    /\ Len(log) < MaxCalls
    /\ \E result \in PMCNondim_run(obj[o], a, log) : Call(o, a, result)

Next ==
    \/ \E o \in DimIds : \E a \in ArgsOf[o] : RunDim(o, a)
    \/ \E o \in NondimIds : \E a \in ArgsOf[o] : RunNondim(o, a)

Spec == Init /\ [][Next]_vars

----------------------------------------------------------------------------
(* What the claims speak of *)

Calls == {log[i] : i \in DOMAIN log}
Converged == {e \in Calls : e.out.kind = "ok"}
Failed == {e \in Calls : e.out.kind # "ok"}

Positive(r) == r[1] > 0

\* the reported temperatures divided by T0
Theta(e) ==
    <<RDiv(e.after.res.T3x, e.args.T0), RDiv(e.after.res.T3y, e.args.T0),
      RDiv(e.after.res.T3b, e.args.T0), RDiv(e.after.res.TS1, e.args.T0),
      RDiv(e.after.res.TS2, e.args.T0)>>

AllSet(res) ==
    Unset \notin {res.T3x, res.T3y, res.T3b, res.TS1, res.TS2}

\* valid DimensionalParameters and SolveInputs (section 3 of the specification)
ValidDim(d) ==
    /\ Positive(d.voidFrac) /\ RLt(d.voidFrac, One)
    /\ Positive(d.dp_upstr) /\ Positive(d.dp_dwnstr)
    /\ Positive(d.lambda_eff) /\ Positive(d.massFlux) /\ Positive(d.L)

ValidArgs(a) ==
    /\ Positive(a.T0) /\ Positive(a.cp) /\ Positive(a.T3a)
    /\ a.f[1] >= 0 /\ Positive(a.f_st)

\* the groups a call works with: the object's, or those reduced from its data
GroupsOf(e) ==
    IF e.o \in NondimIds
    THEN [iota |-> e.before.data.iota, delta |-> e.before.data.delta,
          mu |-> e.before.data.mu]
    ELSE [iota  |-> iota_of(e.before.data, e.args.cp),
          delta |-> delta_of(e.before.data, e.args.T0, K_R_avg(e.before.data)),
          mu    |-> mu_of(e.before.data, K_R_avg(e.before.data))]

\* section 3: the heating value adjusted for the equivalence ratio
SpecLHV(a) ==
    IF RLt(a.f, a.f_st) THEN a.LHV ELSE RDiv(RMul(a.LHV, a.f_st), a.f)

\* f/(f+1) * LHV_eff/(cp*T0)
SpecQ(a) ==
    RDiv(RMul(a.f, SpecLHV(a)), RMul(RAdd(a.f, One), RMul(a.cp, a.T0)))

\* section 4.2: the five equations at th = <<th3x, th3y, th3b, thS1, thS2>>
SpecResiduals(g, a, DeltaT_PH, DeltaT_RC, th) ==
    LET th3a == RDiv(a.T3a, a.T0)
        th4  == RDiv(a.T4, a.T0)
        mean == RDiv(RAdd(th[4], th[5]), R(2))
        exch == RMul(RAdd(One, RMul(g.delta, RPow3(mean))), RSub(th[5], th[4]))
        dm   == RMul(g.delta, g.mu)
    IN  << RSub(RMul(g.iota, RSub(exch, RMul(dm, RSub(RPow4(th[4]), RPow4(th3a))))),
                RSub(th[1], th3a)),
           RSub(SpecQ(a), RSub(th[2], th[1])),
           RSub(RMul(g.iota, RAdd(exch, RMul(dm, RSub(RPow4(th[5]), RPow4(th4))))),
                RSub(th[2], th[3])),
           RSub(RDiv(DeltaT_PH, a.T0), RSub(th[4], th[1])),
           RSub(RDiv(DeltaT_RC, a.T0), RSub(th[3], th[5])) >>

ResidualsAt(e) ==
    SpecResiduals(GroupsOf(e), e.args, e.before.data.DeltaT_PH,
                  e.before.data.DeltaT_RC, Theta(e))

\* every component of u - v is at most n/1000 in magnitude
Close(u, v, n) ==
    \A k \in 1..5 : RLe(RAbs(RSub(u[k], v[k])), Q(n, 1000))

\* e2's temperatures are e1's times one positive factor, the rest alike;
\* heat tells whether LHV is multiplied by the factor too
Scaled(e1, e2, heat) ==
    /\ e1.o \in NondimIds /\ e2.o \in NondimIds
    /\ GroupsOf(e1) = GroupsOf(e2)
    /\ e1.args.cp = e2.args.cp /\ e1.args.f = e2.args.f /\ e1.args.f_st = e2.args.f_st
    /\ e1.args.T0[1] # 0
    /\ LET k == RDiv(e2.args.T0, e1.args.T0) IN
       /\ Positive(k)
       /\ e2.args.T3a = RMul(k, e1.args.T3a)
       /\ e2.args.T4 = RMul(k, e1.args.T4)
       /\ e2.before.data.DeltaT_PH = RMul(k, e1.before.data.DeltaT_PH)
       /\ e2.before.data.DeltaT_RC = RMul(k, e1.before.data.DeltaT_RC)
       /\ e2.args.LHV = IF heat THEN RMul(k, e1.args.LHV) ELSE e1.args.LHV

ScaleObject(self, k) ==
    [self EXCEPT !.data.DeltaT_PH = RMul(k, @), !.data.DeltaT_RC = RMul(k, @)]

ScaleArgs(a, k) ==
    [a EXCEPT !.T0 = RMul(k, @), !.T3a = RMul(k, @), !.T4 = RMul(k, @),
              !.LHV = RMul(k, @)]

----------------------------------------------------------------------------
(* The claims *)

\* C1 (as stated): a run of the dimensional entry point on valid parameters
\* and inputs completes, and so does a run of the non-dimensional one on the
\* groups reduced from them with the same offsets and inputs, with the same
\* five temperatures to solver tolerance.
C1_CrossVariantConsistency ==
    \A e \in Calls :
        e.o \in DimIds /\ ValidDim(e.before.data) /\ ValidArgs(e.args) =>
            /\ e.out.kind = "ok"
            /\ \A n \in Calls :
                   /\ n.o \in NondimIds /\ n.args = e.args
                   /\ GroupsOf(n) = GroupsOf(e)
                   /\ n.before.data.DeltaT_PH = e.before.data.DeltaT_PH
                   /\ n.before.data.DeltaT_RC = e.before.data.DeltaT_RC
                   => n.out.kind = "ok" /\ Close(Theta(n), Theta(e), 2)

C3_NoResultAfterFailure ==
    \A e \in Failed : e.after.res = NoResult

\* C3 (amended): a run that fails leaves the object as it was: without output
\* temperatures if no earlier run on it returned, and otherwise with those of
\* the latest run that returned.  A run that returns sets all five to its
\* solution times T0.  So an object holds either none of the five or the five
\* of its latest converged solve.
C3_ResultsOfLatestConvergedSolve ==
    /\ \A e \in Failed : e.after = e.before
    /\ \A e \in Converged :
           e.after.res = [T3x |-> RMul(e.out.SOL[1], e.args.T0),
                          T3y |-> RMul(e.out.SOL[2], e.args.T0),
                          T3b |-> RMul(e.out.SOL[3], e.args.T0),
                          TS1 |-> RMul(e.out.SOL[4], e.args.T0),
                          TS2 |-> RMul(e.out.SOL[5], e.args.T0)]
    /\ \A o \in DOMAIN obj :
           LET ok == {i \in DOMAIN log : log[i].o = o /\ log[i].out.kind = "ok"}
           IN  IF ok = {} THEN obj[o].res = NoResult
               ELSE /\ AllSet(obj[o].res)
                    /\ obj[o].res = log[CHOOSE i \in ok : \A j \in ok : j <= i].after.res

\* a run returned and a later run on the same object failed
C3_Witness ==
    \E i, j \in DOMAIN log :
        /\ i < j /\ log[i].o = log[j].o
        /\ log[i].out.kind = "ok" /\ log[j].out.kind # "ok"
        /\ AllSet(obj[log[j].o].res)

\* an error the group reduction raises because of a parameter's value
ConfigurationError(out) ==
    out.kind = "ZeroDivisionError" /\ out.line \in {32, 33, 36, 37}

\* C4 (as stated): a run of the dimensional entry point with a pore
\* diameter, the conductivity, the mass flux or the length <= 0 fails with a
\* configuration error before any solve, yielding neither groups nor output
\* temperatures.  (A run that also has T0 = 0 may fail on that first.)
C4_ConfigurationRejected ==
    \A e \in Calls :
        /\ e.o \in DimIds
        /\ e.args.T0[1] # 0
        /\ \E v \in {e.before.data.dp_upstr, e.before.data.dp_dwnstr,
                     e.before.data.lambda_eff, e.before.data.massFlux,
                     e.before.data.L} : v[1] <= 0
        => /\ ConfigurationError(e.out)
           /\ e.out.sys = NoSys
           /\ e.after.res = NoResult

\* C5 (as stated): a run with T0 <= 0 fails at the call: no solve is
\* attempted and no output temperatures are produced.
C5_DomainRejected ==
    \A e \in Calls :
        e.args.T0[1] <= 0 =>
            /\ e.out.kind \notin {"ok", "ValueError"}
            /\ e.out.sys = NoSys
            /\ e.after.res = e.before.res

\* C6: after a run that returned, with f >= 0 and f_st > 0, th_3y - th_3x is
\* f/(f+1) * LHV_eff/(cp*T0) to the solver's acceptance, where LHV_eff is LHV
\* when f < f_st and LHV/(f/f_st) otherwise.
C6_LeanRichBranch ==
    \A e \in Converged :
        e.args.f[1] >= 0 /\ Positive(e.args.f_st) =>
            AbsLeInv(RSub(RSub(Theta(e)[2], Theta(e)[1]), SpecQ(e.args)), 1000)

\* a lean run and a rich run returned
C6_Witness ==
    \E e1, e2 \in Converged :
        /\ RLt(e1.args.f, e1.args.f_st)
        /\ RLt(e2.args.f_st, e2.args.f)
        /\ e1.args.LHV = e2.args.LHV /\ e1.args.T0 = e2.args.T0 /\ e1.o = e2.o
        /\ Theta(e1) # Theta(e2)

\* the closed form of C7
ClosedForm(iota, a, DeltaT_PH, DeltaT_RC) ==
    LET q   == SpecQ(a)
        D1  == RDiv(DeltaT_PH, a.T0)
        D2  == RDiv(DeltaT_RC, a.T0)
        t3a == RDiv(a.T3a, a.T0)
        t3x == RAdd(t3a, RDiv(RMul(iota, RSub(RSub(q, D1), D2)), RAdd(One, iota)))
    IN  <<t3x, RAdd(t3x, q), RAdd(t3a, q), RAdd(t3x, D1), RSub(RAdd(t3a, q), D2)>>

SpecGroups(d, a) ==
    LET K_R == RDiv(RAdd(RDiv(RMul(R(3), RSub(One, d.voidFrac)), d.dp_upstr),
                         RDiv(RMul(R(3), RSub(One, d.voidFrac)), d.dp_dwnstr)), R(2))
    IN  [iota  |-> RDiv(d.lambda_eff, RMul(RMul(d.massFlux, a.cp), d.L)),
         delta |-> RDiv(RMul(RMul(R(16), stefan_boltzmann), RPow3(a.T0)),
                        RMul(RMul(R(3), K_R), d.lambda_eff)),
         mu    |-> RDiv(RMul(RMul(RMul(R(3), d.emissivity), K_R),
                             RMul(RSub(One, d.voidFrac), d.L)), R(16))]

\* C9 (as stated): a run of the dimensional entry point on valid parameters
\* and inputs computes the groups of section 4.1 and builds the five
\* equations from them.
C9_GroupReduction ==
    \A e \in Calls :
        e.o \in DimIds /\ ValidDim(e.before.data) /\ ValidArgs(e.args) =>
            /\ e.out.kind \in {"ok", "ValueError"}
            /\ e.out.sys.iota = SpecGroups(e.before.data, e.args).iota
            /\ e.out.sys.delta = SpecGroups(e.before.data, e.args).delta
            /\ e.out.sys.mu = SpecGroups(e.before.data, e.args).mu

\* C10: a run leaves the parameter fields of its object as they were
\* constructed, and two runs on objects of one class with the same parameters
\* and the same arguments end alike (the same error at the same place, or the
\* same five temperatures), whatever runs came before.
C10_CallHistoryIndependence ==
    /\ \A e \in Calls :
           /\ e.after.data = e.before.data /\ e.after.cls = e.before.cls
           /\ e.before.data = (IF e.o \in DimIds THEN DimObjects[e.o]
                               ELSE NondimObjects[e.o])
    /\ \A e1, e2 \in Calls :
           /\ e1.before.cls = e2.before.cls
           /\ e1.before.data = e2.before.data
           /\ e1.args = e2.args
           => /\ e1.out = e2.out
              /\ e1.out.kind = "ok" => e1.after.res = e2.after.res

\* the same call was made twice on an object, the first returning, so that
\* the second met stored temperatures the first did not
C10_Witness ==
    \E i, j \in DOMAIN log :
        /\ i < j /\ log[i].o = log[j].o /\ log[i].args = log[j].args
        /\ log[i].out.kind = "ok"
        /\ log[i].before.res # log[j].before.res

====
